---- MODULE Spec2Model ----
(***************************************************************************)
(* A model of cpptoml (include/cpptoml.h): the document tree (value,       *)
(* array, table, table_array), the line-oriented recursive-descent parser  *)
(* and the lookup accessors of table.                                      *)
(*                                                                         *)
(* Text is modelled character by character: a line is a sequence of        *)
(* one-character strings, the stream input_ is the sequence of the lines   *)
(* std::getline has not yet returned.  An iterator into line_ is an index  *)
(* 1..Len(line_)+1, the last one being line_.end().                        *)
(***************************************************************************)
EXTENDS Integers, Sequences, FiniteSets, TLC

VARIABLES
    input_,        \* parser::input_: the lines not yet read from the stream
    line_,         \* parser::line_: the line being parsed
    line_number_,  \* parser::line_number_
    tables_,       \* parser::tables_: names of the single tables declared
    root,          \* the local `root` of parser::parse
    curr_table,    \* the local `curr_table` of parser::parse, as a path from root
    status,        \* "parsing", "done" (parse returned root) or "failed" (parse threw)
    err,           \* the exception parse threw: [msg, line, exc]
    call,          \* the last accessor called on the returned root, and its outcome
    doc,           \* history: the whole stream parse was started on
    src            \* history: how the stream was put together

vars == <<input_, line_, line_number_, tables_, root, curr_table, status, err,
          call, doc, src>>

----------------------------------------------------------------------------
(* Characters *)

NUL == "NUL"   \* what *line_.end() reads: the terminator of a std::string
WS == {" ", "\t"}
Digits == <<"0", "1", "2", "3", "4", "5", "6", "7", "8", "9">>

\* the smallest and the largest element of a non-empty set of integers
Min(S) == CHOOSE m \in S : \A n \in S : m <= n
Max(S) == CHOOSE m \in S : \A n \in S : m >= n

\* std::find / std::find_if over [from, to): the first index whose
\* character is in cs, or `to`
Find(line, from, to, cs) ==
    LET S == {j \in from..(to - 1) : line[j] \in cs}
    IN  IF S = {} THEN to ELSE Min(S)

\* std::find_if with the negated predicate
FindNot(line, from, to, cs) ==
    LET S == {j \in from..(to - 1) : line[j] \notin cs}
    IN  IF S = {} THEN to ELSE Min(S)

\* *it for an iterator of the line; *end() reads the string's terminator
Deref(line, it) == IF it >= 1 /\ it <= Len(line) THEN line[it] ELSE NUL

\* std::string{from, to}
Str(line, from, to) == SubSeq(line, from, to - 1)

EndOf(line) == Len(line) + 1

is_number(c) == \E i \in 1..10 : Digits[i] = c

DigitVal(c) == (CHOOSE i \in 1..10 : Digits[i] = c) - 1

consume_whitespace(line, it, end) == FindNot(line, it, end, WS)

----------------------------------------------------------------------------
(* The node model *)

EmptyMap == [k \in {} |-> 0]
new_table == [k |-> "table", m |-> EmptyMap]
new_table_array == [k |-> "table_array", e |-> <<>>]
new_array(elems) == [k |-> "array", e |-> elems]
\* value<T>: the data of every type is kept as a record
new_value(type, v) == [k |-> "value", t |-> type, v |-> v]

is_value(n) == n.k = "value"
is_table(n) == n.k = "table"
is_array(n) == n.k = "array"
is_table_array(n) == n.k = "table_array"

\* base::as<T>: the node when it is a value<T>, otherwise nullptr
as_value_ok(n, type) == n.k = "value" /\ n.t = type

\* table::contains
contains(t, key) == key \in DOMAIN t.m

\* table::insert: map_[key] = value
insert(t, key, value) == [t EXCEPT !.m = (key :> value) @@ t.m]

\* the step into a table_array always takes its first element
Step_first_element(key, idx) == [key |-> key, idx |-> IF idx > 1 THEN 1 ELSE idx]

\* A table* is modelled as the path that leads to it from root: one step per
\* key, idx = 0 for a table stored under the key and idx = i for the i-th
\* element of a table_array stored under it.
Step(key, idx) == [key |-> key, idx |-> idx]

RECURSIVE TableAt(_, _)
TableAt(t, path) ==
    IF path = <<>> THEN t
    ELSE LET s == Head(path)
             c == t.m[s.key]
         IN  TableAt(IF s.idx = 0 THEN c ELSE c.e[s.idx], Tail(path))

\* the tree after `f` has been applied to the table at `path`
RECURSIVE UpdateAt(_, _, _, _, _)
UpdateAt(t, path, op, key, value) ==
    IF path = <<>>
    THEN IF op = "insert" THEN insert(t, key, value)
         ELSE \* push_back on the table_array under key
              [t EXCEPT !.m[key].e = Append(@, value)]
    ELSE LET s == Head(path)
             c == t.m[s.key]
         IN  IF s.idx = 0
             THEN [t EXCEPT !.m[s.key] = UpdateAt(c, Tail(path), op, key, value)]
             ELSE [t EXCEPT !.m[s.key].e[s.idx] =
                       UpdateAt(c.e[s.idx], Tail(path), op, key, value)]

InsertAt(t, path, key, value) == UpdateAt(t, path, "insert", key, value)

\* nothing is pushed: the table_array stays as it is
PushBackAt_nothing(t, path, key, value) == t

PushBackAt(t, path, key, value) == UpdateAt(t, path, "push_back", key, value)

----------------------------------------------------------------------------
(* Exceptions *)

NoErr == [msg |-> "", line |-> 0, exc |-> ""]

\* parser::throw_parse_exception: the message with line_number_ attached
throw_parse_exception(msg, ln) == [msg |-> msg, line |-> ln, exc |-> "parse_exception"]

\* throw parse_exception(msg): the one-argument constructor, no line number
parse_exception_noline(msg) == [msg |-> msg, line |-> 0, exc |-> "parse_exception"]

\* an exception of the standard library that is not a parse_exception
std_exception(kind, ln) == [msg |-> kind, line |-> 0, exc |-> kind]

----------------------------------------------------------------------------
(* The parser's position: line_ and the iterator into it, the rest of the   *)
(* stream, line_number_, and the exception thrown so far (if any).          *)

PState(line, it, input, ln) ==
    [line |-> line, it |-> it, input |-> input, ln |-> ln, err |-> NoErr]

Failed(P) == P.err.msg # ""
Throw(P, msg) == [P EXCEPT !.err = throw_parse_exception(msg, P.ln)]
ThrowStd(P, kind) == [P EXCEPT !.err = std_exception(kind, P.ln)]

nullnode == [k |-> "null"]
Result(P, node) == [P |-> P, node |-> node]

DigitSet == {Digits[i] : i \in 1..10}
DateChars == DigitSet \cup {"T", "Z", ":", "-"}

\* the number a run of decimal digits denotes
RECURSIVE DigitsValue(_)
DigitsValue(s) ==
    IF s = <<>> THEN 0
    ELSE 10 * DigitsValue(SubSeq(s, 1, Len(s) - 1)) + DigitVal(s[Len(s)])

\* a run of decimal digits without its leading zeros ("0" for zero)
RECURSIVE StripZeros(_)
StripZeros(s) ==
    IF Len(s) > 1 /\ s[1] = "0" THEN StripZeros(Tail(s)) ELSE s

\* a > b for two runs of digits without leading zeros
DigitsGreater(a, b) ==
    \/ Len(a) > Len(b)
    \/ /\ Len(a) = Len(b)
       /\ \E i \in 1..Len(a) :
            /\ DigitVal(a[i]) > DigitVal(b[i])
            /\ \A j \in 1..(i - 1) : a[j] = b[j]

\* the digits of 2^63 - 1 and of 2^63, the bounds of int64_t
Int64MaxDigits == <<"9", "2", "2", "3", "3", "7", "2", "0", "3", "6", "8", "5",
                    "4", "7", "7", "5", "8", "0", "7">>
Int64MinDigits == <<"9", "2", "2", "3", "3", "7", "2", "0", "3", "6", "8", "5",
                    "4", "7", "7", "5", "8", "0", "8">>

\* parser::is_date, the build with std::regex: the run of date characters
\* at `it` matches \d{4}-\d{2}-\d{2}T\d{2}:\d{2}:\d{2}Z
date_pattern(s) ==
    /\ Len(s) = 20
    /\ \A i \in {1, 2, 3, 4, 6, 7, 9, 10, 12, 13, 15, 16, 18, 19} : is_number(s[i])
    /\ s[5] = "-" /\ s[8] = "-" /\ s[11] = "T"
    /\ s[14] = ":" /\ s[17] = ":" /\ s[20] = "Z"

is_date(line, it, end) ==
    date_pattern(Str(line, it, FindNot(line, it, end, DateChars)))

\* parser::determine_number_type
determine_number_type(line, it, end) ==
    LET c0 == IF Deref(line, it) = "-" THEN it + 1 ELSE it
        c1 == FindNot(line, c0, end, DigitSet)
    IN  IF c1 # end /\ line[c1] = "." THEN "FLOAT" ELSE "INT"

\* parser::determine_value_type; "error" stands for the throw at its end
determine_value_type(line, it, end) ==
    LET c == Deref(line, it)
    IN  IF c = "\"" THEN "STRING"
        ELSE IF is_date(line, it, end) THEN "DATE"
        ELSE IF is_number(c) \/ c = "-" THEN determine_number_type(line, it, end)
        ELSE IF c = "t" \/ c = "f" THEN "BOOL"
        ELSE IF c = "[" THEN "ARRAY"
        ELSE "error"

\* parser::parse_escape_code; BS stands for the backspace character
parse_escape_code(line, it0) ==
    LET it == it0 + 1
        c == Deref(line, it)
    IN  IF it = EndOf(line) THEN [it |-> it, value |-> "", err |-> "Invalid escape sequence"]
        ELSE IF c \in {"b", "t", "n", "f", "r", "\"", "/", "\\"}
        THEN [it |-> it + 1,
              value |-> CASE c = "b" -> "BS" [] c = "t" -> "\t" [] c = "n" -> "\n"
                          [] c = "f" -> "\f" [] c = "r" -> "\r" [] OTHER -> c,
              err |-> ""]
        ELSE [it |-> it, value |-> "", err |-> "Invalid escape sequence"]

\* the loop of parser::string_literal
RECURSIVE string_literal_loop(_, _, _)
string_literal_loop(line, it, val) ==
    IF it = EndOf(line)
    THEN [it |-> it, val |-> val, err |-> "Unterminated string literal"]
    ELSE IF line[it] = "\\"
    THEN LET e == parse_escape_code(line, it)
         IN  IF e.err # "" THEN [it |-> e.it, val |-> val, err |-> e.err]
             ELSE string_literal_loop(line, e.it, Append(val, e.value))
    ELSE IF line[it] = "\""
    THEN [it |-> consume_whitespace(line, it + 1, EndOf(line)), val |-> val, err |-> ""]
    ELSE string_literal_loop(line, it + 1, Append(val, line[it]))

\* parser::string_literal: [P, val]
string_literal(P) ==
    LET r == string_literal_loop(P.line, P.it + 1, <<>>)
    IN  IF r.err # "" THEN [P |-> Throw([P EXCEPT !.it = r.it], r.err), val |-> <<>>]
        ELSE [P |-> [P EXCEPT !.it = r.it], val |-> r.val]

\* parser::parse_string
parse_string(P) ==
    LET r == string_literal(P)
    IN  IF Failed(r.P) THEN Result(r.P, nullnode)
        ELSE Result(r.P, new_value("string", [chars |-> r.val]))

\* parser::parse_int: std::stoll of [it, end), a text [-]digits.  The
\* int64_t is kept as its sign and its decimal digits without leading zeros.
parse_int(P, end) ==
    LET v == Str(P.line, P.it, end)
        neg == v # <<>> /\ v[1] = "-"
        ds == IF neg THEN Tail(v) ELSE v
        n == StripZeros(ds)
    IN  IF ds = <<>> THEN Result(ThrowStd(P, "invalid_argument"), nullnode)
        ELSE IF DigitsGreater(n, IF neg THEN Int64MinDigits ELSE Int64MaxDigits)
        THEN Result(ThrowStd(P, "out_of_range"), nullnode)
        ELSE Result([P EXCEPT !.it = end],
                    new_value("int", [neg |-> neg /\ n # <<"0">>, digits |-> n]))

\* a run of decimal digits without its trailing zeros
RECURSIVE StripTrailingZeros(_)
StripTrailingZeros(s) ==
    IF s # <<>> /\ s[Len(s)] = "0" THEN StripTrailingZeros(SubSeq(s, 1, Len(s) - 1))
    ELSE s

\* parser::parse_float: std::stod of [it, end), a text [-]digits.digits.
\* The double is kept as the decimal fraction it was read from: its sign,
\* the digits before the point without leading zeros and the digits after
\* it without trailing zeros.
parse_float(P, end) ==
    LET v == Str(P.line, P.it, end)
        neg == v # <<>> /\ v[1] = "-"
        ds == IF neg THEN Tail(v) ELSE v
        dot == Find(ds, 1, EndOf(ds), {"."})
        ip == Str(ds, 1, dot)
        fp == Str(ds, dot + 1, EndOf(ds))
        int_part == StripZeros(IF ip = <<>> THEN <<"0">> ELSE ip)
        frac_part == StripTrailingZeros(fp)
    IN  IF ip = <<>> /\ fp = <<>> THEN Result(ThrowStd(P, "invalid_argument"), nullnode)
        ELSE Result([P EXCEPT !.it = end],
                    new_value("float", [neg |-> neg /\ (int_part # <<"0">> \/ frac_part # <<>>),
                                        int_part |-> int_part, frac_part |-> frac_part]))

\* parser::parse_number
parse_number(P) ==
    LET line == P.line
        end == EndOf(line)
        c0 == IF Deref(line, P.it) = "-" THEN P.it + 1 ELSE P.it
        c1 == FindNot(line, c0, end, DigitSet)
    IN  IF c1 # end /\ line[c1] = "."
        THEN IF c1 + 1 = end
             THEN Result(Throw(P, "Floats must have trailing digits"), nullnode)
             ELSE parse_float(P, FindNot(line, c1 + 1, end, DigitSet))
        ELSE parse_int(P, c1)

\* parser::parse_bool
parse_bool(P) ==
    LET boolend == Find(P.line, P.it, EndOf(P.line), {" ", "\t", "#"})
        v == Str(P.line, P.it, boolend)
        P1 == [P EXCEPT !.it = boolend]
    IN  IF v = <<"t", "r", "u", "e">> THEN Result(P1, new_value("bool", [b |-> TRUE]))
        ELSE IF v = <<"f", "a", "l", "s", "e">> THEN Result(P1, new_value("bool", [b |-> FALSE]))
        ELSE Result(Throw(P1, "Attempted to parse invalid boolean value"), nullnode)

\* parser::parse_date, the build with std::regex
parse_date(P) ==
    LET date_end == FindNot(P.line, P.it, EndOf(P.line), DateChars)
        s == Str(P.line, P.it, date_end)
        P1 == [P EXCEPT !.it = date_end]
    IN  IF ~date_pattern(s) THEN Result(ThrowStd(P1, "invalid_argument"), nullnode)
        ELSE Result(P1, new_value("date",
                 [tm_year |-> DigitsValue(SubSeq(s, 1, 4)) - 1900,
                  tm_mon |-> DigitsValue(SubSeq(s, 6, 7)) - 1,
                  tm_mday |-> DigitsValue(SubSeq(s, 9, 10)),
                  tm_hour |-> DigitsValue(SubSeq(s, 12, 13)),
                  tm_min |-> DigitsValue(SubSeq(s, 15, 16)),
                  tm_sec |-> DigitsValue(SubSeq(s, 18, 19))]))

\* the loop of parser::skip_whitespace_and_comments: pull lines from the
\* stream while the position is at the end of the line or at a comment
RECURSIVE skip_lines(_)
skip_lines(P) ==
    IF P.it = EndOf(P.line) \/ P.line[P.it] = "#"
    THEN IF P.input = <<>> THEN Throw(P, "Unclosed array")
         ELSE LET l == Head(P.input)
              IN  skip_lines([P EXCEPT !.line = l, !.input = Tail(P.input),
                                       !.ln = P.ln + 1,
                                       !.it = consume_whitespace(l, 1, EndOf(l))])
    ELSE P

\* parser::skip_whitespace_and_comments
skip_whitespace_and_comments(P) ==
    skip_lines([P EXCEPT !.it = consume_whitespace(P.line, P.it, EndOf(P.line))])

\* the type check is left out: every parsed element is taken
value_array_accepts_any(value, type) == TRUE

\* the type check of parser::parse_value_array<Value>: value->as<Value>()
value_array_accepts(value, type) == as_value_ok(value, type)

\* the scalar type parse_array instantiates parse_value_array with
ValueTypeOf(ptype) ==
    CASE ptype = "STRING" -> "string" [] ptype = "INT" -> "int"
      [] ptype = "FLOAT" -> "float" [] ptype = "DATE" -> "date"

RECURSIVE parse_value(_)
RECURSIVE parse_array(_)
RECURSIVE value_array_loop(_, _, _)
RECURSIVE nested_array_loop(_, _)

\* parser::parse_value
parse_value(P) ==
    LET type == determine_value_type(P.line, P.it, EndOf(P.line))
    IN  CASE type = "STRING" -> parse_string(P)
          [] type = "DATE" -> parse_date(P)
          [] type \in {"INT", "FLOAT"} -> parse_number(P)
          [] type = "BOOL" -> parse_bool(P)
          [] type = "ARRAY" -> parse_array(P)
          [] OTHER -> Result(Throw(P, "Failed to parse value type"), nullnode)

\* the while loop of parser::parse_value_array<Value>: [P, arr]
value_array_loop(P, type, arr) ==
    IF P.it # EndOf(P.line) /\ P.line[P.it] # "]"
    THEN LET R == parse_value(P)
         IN  IF Failed(R.P) THEN [P |-> R.P, arr |-> arr]
             ELSE IF ~value_array_accepts(R.node, type)
             THEN [P |-> Throw(R.P, "Arrays must be heterogeneous"), arr |-> arr]
             ELSE LET arr2 == Append(arr, R.node)
                      P2 == skip_whitespace_and_comments(R.P)
                  IN  IF Failed(P2) THEN [P |-> P2, arr |-> arr2]
                      ELSE IF P2.line[P2.it] # "," THEN [P |-> P2, arr |-> arr2]
                      ELSE LET P3 == skip_whitespace_and_comments(
                                         [P2 EXCEPT !.it = P2.it + 1])
                           IN  IF Failed(P3) THEN [P |-> P3, arr |-> arr2]
                               ELSE value_array_loop(P3, type, arr2)
    ELSE [P |-> P, arr |-> arr]

\* what follows the loop in parse_value_array and parse_nested_array:
\* if (it != end) ++it; return arr;
close_array(L) ==
    IF Failed(L.P) THEN Result(L.P, nullnode)
    ELSE Result([L.P EXCEPT !.it = IF L.P.it # EndOf(L.P.line) THEN L.P.it + 1
                                    ELSE L.P.it],
                new_array(L.arr))

\* parser::parse_value_array<Value>
parse_value_array(P, type) == close_array(value_array_loop(P, type, <<>>))

\* the while loop of parser::parse_nested_array: [P, arr]
nested_array_loop(P, arr) ==
    IF P.it # EndOf(P.line) /\ P.line[P.it] # "]"
    THEN LET R == parse_array(P)
         IN  IF Failed(R.P) THEN [P |-> R.P, arr |-> arr]
             ELSE LET arr2 == Append(arr, R.node)
                      P2 == skip_whitespace_and_comments(R.P)
                  IN  IF Failed(P2) THEN [P |-> P2, arr |-> arr2]
                      ELSE IF P2.line[P2.it] # "," THEN [P |-> P2, arr |-> arr2]
                      ELSE LET P3 == skip_whitespace_and_comments(
                                         [P2 EXCEPT !.it = P2.it + 1])
                           IN  IF Failed(P3) THEN [P |-> P3, arr |-> arr2]
                               ELSE nested_array_loop(P3, arr2)
    ELSE [P |-> P, arr |-> arr]

\* parser::parse_nested_array
parse_nested_array(P) == close_array(nested_array_loop(P, <<>>))

\* parser::parse_array from the test for an empty array on: P1 is the
\* position skip_whitespace_and_comments left behind the '['
array_elements(P1) ==
    IF Failed(P1) THEN Result(P1, nullnode)
    ELSE IF P1.line[P1.it] = "]"
    THEN Result([P1 EXCEPT !.it = P1.it + 1], new_array(<<>>))
    ELSE LET val_end == Find(P1.line, P1.it, EndOf(P1.line), {",", "]", "#"})
             type == determine_value_type(P1.line, P1.it, val_end)
         IN  CASE type \in {"STRING", "INT", "FLOAT", "DATE"} ->
                      parse_value_array(P1, ValueTypeOf(type))
               [] type = "ARRAY" -> parse_nested_array(P1)
               [] type = "error" ->
                      Result(Throw(P1, "Failed to parse value type"), nullnode)
               [] OTHER -> Result(Throw(P1, "Unable to parse array"), nullnode)

\* parser::parse_array, entered with `it` on the character it takes for '['
parse_array(P) ==
    array_elements(skip_whitespace_and_comments([P EXCEPT !.it = P.it + 1]))

----------------------------------------------------------------------------
(* Table headers *)

\* the while loop of parser::parse_single_table: walk the dotted parts of
\* [it, kg_end) from curr, creating the tables that are missing
RECURSIVE single_table_walk(_, _, _, _, _)
single_table_walk(line, it, kg_end, rt, curr) ==
    IF it = kg_end THEN [root |-> rt, curr |-> curr, err |-> ""]
    ELSE LET dot == Find(line, it, kg_end, {"."})
             part == Str(line, it, dot)
             it2 == IF dot # kg_end THEN dot + 1 ELSE dot
             t == TableAt(rt, curr)
         IN  IF part = <<>>
             THEN [root |-> rt, curr |-> curr, err |-> "Empty keytable part"]
             ELSE IF contains(t, part)
             THEN LET b == t.m[part]
                  IN  IF is_table(b)
                      THEN single_table_walk(line, it2, kg_end, rt,
                                             Append(curr, Step(part, 0)))
                      ELSE IF is_table_array(b)
                      THEN single_table_walk(line, it2, kg_end, rt,
                                             Append(curr, Step(part, Len(b.e))))
                      ELSE [root |-> rt, curr |-> curr,
                            err |-> "Keytable already exists as a value"]
             ELSE single_table_walk(line, it2, kg_end,
                                    InsertAt(rt, curr, part, new_table),
                                    Append(curr, Step(part, 0)))

\* the header's name is not recorded
declare_table_forgets(tables, table_name) == tables

\* the header's name is recorded together with every dotted prefix of it
declare_table_with_prefixes(tables, table_name) ==
    tables \cup {table_name}
           \cup {SubSeq(table_name, 1, i - 1) :
                     i \in {j \in 1..Len(table_name) : table_name[j] = "."}}

\* tables_.insert({it, kg_end}) of parser::parse_single_table
declare_table(tables, table_name) == tables \cup {table_name}

HeaderResult(P, rt, curr, tables) ==
    [P |-> P, root |-> rt, curr |-> curr, tables |-> tables]

\* parser::parse_single_table, entered with `it` after the '['.  When the
\* line holds no ']', kg_end is end and the ++it after the walk leaves the
\* string: what the trailing check then reads is not defined, and `ub`
\* chooses between its two outcomes (it throws, or it passes).
parse_single_table(P, rt, curr, tables, ub) ==
    LET line == P.line
        it == P.it
        end == EndOf(line)
        kg_end == Find(line, it, end, {"]"})
        table_name == Str(line, it, kg_end)
        W == single_table_walk(line, it, kg_end, rt, curr)
        tables2 == declare_table(tables, table_name)
        last == consume_whitespace(line, kg_end + 1, end)
    IN  IF Find(line, it, end, {"["}) # end
        THEN HeaderResult(Throw(P, "Cannot have [ in table name"), rt, curr, tables)
        ELSE IF it = kg_end
        THEN HeaderResult(Throw(P, "Empty table"), rt, curr, tables)
        ELSE IF table_name \in tables
        THEN HeaderResult(Throw(P, "Duplicate table"), rt, curr, tables)
        ELSE IF \E i \in 1..Len(table_name) : table_name[i] \in WS
        THEN HeaderResult([P EXCEPT !.err = parse_exception_noline(
                                       "Table name cannot have whitespace")],
                          rt, curr, tables)
        ELSE IF W.err # ""
        THEN HeaderResult(Throw(P, W.err), W.root, W.curr, tables2)
        ELSE IF kg_end = end
        THEN HeaderResult(IF ub THEN Throw(P, "Unidentified trailing character")
                          ELSE [P EXCEPT !.it = end],
                          W.root, W.curr, tables2)
        ELSE IF last # end /\ line[last] # "#"
        THEN HeaderResult(Throw([P EXCEPT !.it = last], "Unidentified trailing character"),
                          W.root, W.curr, tables2)
        ELSE HeaderResult([P EXCEPT !.it = last], W.root, W.curr, tables2)

\* a table_array header whose last part names the table_array b: it is
\* left as it is, and the walk goes on in its last element
append_table_reuses_last(rt, curr, part, b) ==
    [root |-> rt, curr |-> Append(curr, Step(part, Len(b.e)))]

\* a table_array header whose last part names the table_array b: the new
\* table is put in front of the tables b holds
append_table_in_front(rt, curr, part, b) ==
    [root |-> InsertAt(rt, curr, part, [b EXCEPT !.e = <<new_table>> \o @]),
     curr |-> Append(curr, Step(part, 1))]

\* a table_array header whose last part names the table_array b:
\* v->get().push_back(std::make_shared<table>()); curr_table = back
append_table(rt, curr, part, b) ==
    [root |-> PushBackAt(rt, curr, part, new_table),
     curr |-> Append(curr, Step(part, Len(b.e) + 1))]

\* the while loop of parser::parse_table_array
RECURSIVE table_array_walk(_, _, _, _, _)
table_array_walk(line, it, kg_end, rt, curr) ==
    IF it = kg_end THEN [root |-> rt, curr |-> curr, err |-> ""]
    ELSE LET dot == Find(line, it, kg_end, {"."})
             part == Str(line, it, dot)
             it2 == IF dot # kg_end THEN dot + 1 ELSE dot
             t == TableAt(rt, curr)
         IN  IF part = <<>>
             THEN [root |-> rt, curr |-> curr, err |-> "Empty keytable part"]
             ELSE IF contains(t, part)
             THEN LET b == t.m[part]
                  IN  IF it2 = kg_end
                      THEN IF ~is_table_array(b)
                           THEN [root |-> rt, curr |-> curr,
                                 err |-> "Expected keytable array"]
                           ELSE LET A == append_table(rt, curr, part, b)
                                IN  table_array_walk(line, it2, kg_end, A.root, A.curr)
                      ELSE IF is_table(b)
                      THEN table_array_walk(line, it2, kg_end, rt,
                                            Append(curr, Step(part, 0)))
                      ELSE IF is_table_array(b)
                      THEN table_array_walk(line, it2, kg_end, rt,
                                            Append(curr, Step(part, Len(b.e))))
                      ELSE [root |-> rt, curr |-> curr,
                            err |-> "Keytable already exists as a value"]
             ELSE IF it2 = kg_end
             THEN table_array_walk(line, it2, kg_end,
                      PushBackAt(InsertAt(rt, curr, part, new_table_array),
                                 curr, part, new_table),
                      Append(curr, Step(part, 1)))
             ELSE table_array_walk(line, it2, kg_end,
                                   InsertAt(rt, curr, part, new_table),
                                   Append(curr, Step(part, 0)))

\* parser::parse_table_array, entered with `it` on the second '['
parse_table_array(P, rt, curr, tables) ==
    LET line == P.line
        it == P.it + 1
        end == EndOf(line)
        kg_end == Find(line, it, end, {"]"})
        W == table_array_walk(line, it, kg_end, rt, curr)
    IN  IF Find(line, it, end, {"["}) # end
        THEN HeaderResult(Throw(P, "Cannot have [ in keytable name"), rt, curr, tables)
        ELSE IF kg_end = end
        THEN HeaderResult(Throw(P, "Unterminated keytable array"), rt, curr, tables)
        ELSE IF it = kg_end
        THEN HeaderResult(Throw(P, "Empty keytable"), rt, curr, tables)
        ELSE IF Deref(line, kg_end + 1) # "]"
        THEN HeaderResult(Throw(P, "Invalid keytable array specifier"), rt, curr, tables)
        ELSE IF W.err # ""
        THEN HeaderResult(Throw(P, W.err), W.root, W.curr, tables)
        ELSE HeaderResult([P EXCEPT !.it = kg_end], W.root, W.curr, tables)

\* parser::parse_table, entered with `it` on the '['
parse_table(P, rt, curr, tables, ub) ==
    LET P1 == [P EXCEPT !.it = P.it + 1]
    IN  IF P1.it = EndOf(P.line)
        THEN HeaderResult(Throw(P1, "Unexpected end of table"), rt, curr, tables)
        ELSE IF P.line[P1.it] = "["
        THEN parse_table_array(P1, rt, curr, tables)
        ELSE parse_single_table(P1, rt, curr, tables, ub)

----------------------------------------------------------------------------
(* key = value *)

\* parser::consume_backwards_whitespace
RECURSIVE consume_backwards_whitespace(_, _, _)
consume_backwards_whitespace(line, back, front) ==
    IF back # front /\ Deref(line, back) \in WS
    THEN consume_backwards_whitespace(line, back - 1, front)
    ELSE back

\* parser::parse_bare_key: [P, key].  A line whose first character is '='
\* makes key_end start before `it`: the backwards scan then reads in front
\* of the string.  `ub` chooses what it finds there: a character that stops
\* the scan (possible only when nothing precedes the '='), or one that lets
\* key_end end up before `it`, and std::string{it, key_end} throws.
parse_bare_key(P, ub) ==
    LET line == P.line
        it == P.it
        end == EndOf(line)
        eq == Find(line, it, end, {"="})
        key_end == consume_backwards_whitespace(line, eq - 1, it) + 1
        key == Str(line, it, key_end)
    IN  IF eq = it
        THEN IF it = 1 /\ ~ub THEN [P |-> P, key |-> <<>>]
             ELSE [P |-> ThrowStd(P, "length_error"), key |-> <<>>]
        ELSE IF Find(line, it, key_end, {"#"}) # key_end
        THEN [P |-> Throw(P, "Key cannot contain #"), key |-> key]
        ELSE IF Find(line, it, key_end, WS) # key_end
        THEN [P |-> Throw(P, "Key cannot contain whitespace"), key |-> key]
        ELSE [P |-> [P EXCEPT !.it = consume_whitespace(line, eq, end)], key |-> key]

\* parser::parse_quoted_key
parse_quoted_key(P) ==
    LET r == string_literal(P) IN [P |-> r.P, key |-> r.val]

\* parser::parse_key
parse_key(P, ub) ==
    LET P1 == [P EXCEPT !.it = consume_whitespace(P.line, P.it, EndOf(P.line))]
    IN  IF Deref(P1.line, P1.it) = "\"" THEN parse_quoted_key(P1)
        ELSE parse_bare_key(P1, ub)

\* the test is left out: no key counts as present
key_never_present(rt, curr, key) == FALSE

\* the test of parser::parse_key_value for a key the table already holds
key_already_present(rt, curr, key) == contains(TableAt(rt, curr), key)

\* parser::eol_or_comment
eol_or_comment(P) ==
    IF P.it # EndOf(P.line) /\ P.line[P.it] # "#"
    THEN Throw(P, "Unidentified trailing character")
    ELSE P

\* parser::parse_key_value from the value on: R is what parse_value
\* returned for the key `key`
key_value_store(key, R, rt, curr) ==
    LET P3 == [R.P EXCEPT !.it = consume_whitespace(R.P.line, R.P.it, EndOf(R.P.line))]
    IN  IF Failed(R.P) THEN [P |-> R.P, root |-> rt]
        ELSE [P |-> eol_or_comment(P3), root |-> InsertAt(rt, curr, key, R.node)]

\* parser::parse_key_value from the tests on the key on: K is what
\* parse_key returned
key_value_after_key(K, rt, curr) ==
    LET P1 == K.P
        P2 == [P1 EXCEPT !.it = consume_whitespace(P1.line, P1.it + 1, EndOf(P1.line))]
    IN  IF Failed(P1) THEN [P |-> P1, root |-> rt]
        ELSE IF key_already_present(rt, curr, K.key)
        THEN [P |-> Throw(P1, "Key already present"), root |-> rt]
        ELSE IF Deref(P1.line, P1.it) # "="
        THEN [P |-> Throw(P1, "Value must follow after a '='"), root |-> rt]
        ELSE key_value_store(K.key, parse_value(P2), rt, curr)

\* parser::parse_key_value: [P, root]
parse_key_value(P, rt, curr, ub) == key_value_after_key(parse_key(P, ub), rt, curr)

\* what parse holds after parse_key_value returned R: curr_table and
\* tables_ are as they were
key_value_line(R, curr, tables) == HeaderResult(R.P, R.root, curr, tables)

\* the body of the loop of parser::parse for the line P starts: a blank
\* line or a comment is skipped, a line that starts with '[' goes to
\* parse_table from the root, any other line to parse_key_value
parse_line(P, rt, curr, tables, ub) ==
    IF P.it = EndOf(P.line) THEN HeaderResult(P, rt, curr, tables)
    ELSE IF P.line[P.it] = "#" THEN HeaderResult(P, rt, curr, tables)
    ELSE IF P.line[P.it] = "[" THEN parse_table(P, rt, <<>>, tables, ub)
    ELSE key_value_line(parse_key_value(P, rt, curr, ub), curr, tables)

----------------------------------------------------------------------------
(* The accessors of table.  An outcome is [raised, ret, node]: whether     *)
(* std::out_of_range left the call, the bool it returned (contains...),    *)
(* and the node it returned, nullnode standing for nullptr / empty option. *)

Outcome(raised, ret, node) == [raised |-> raised, ret |-> ret, node |-> node]
Raised == Outcome(TRUE, FALSE, nullnode)
Returned(node) == Outcome(FALSE, node.k # "null", node)
ReturnedBool(b) == Outcome(FALSE, b, nullnode)

\* table::split
RECURSIVE split(_, _)
split(value, separator) ==
    LET q == Find(value, 1, EndOf(value), {separator})
    IN  IF q = EndOf(value) THEN <<value>>
        ELSE <<Str(value, 1, q)>> \o split(SubSeq(value, q + 1, Len(value)), separator)

\* table::get: map_.at(key)
get(t, key) == IF key \in DOMAIN t.m THEN Returned(t.m[key]) ELSE Raised

\* table::get_table
get_table(t, key) ==
    IF contains(t, key) /\ is_table(t.m[key]) THEN Returned(t.m[key])
    ELSE Returned(nullnode)

\* the for loop of table::resolve_qualified: the table the leading parts
\* lead to, or nullnode
RECURSIVE resolve_parts(_, _)
resolve_parts(t, parts) ==
    IF parts = <<>> THEN t
    ELSE LET n == get_table(t, Head(parts)).node
         IN  IF n.k = "null" THEN nullnode ELSE resolve_parts(n, Tail(parts))

\* table::resolve_qualified; with_p tells whether the output parameter p
\* was given
resolve_qualified(t, key, with_p) ==
    LET parts == split(key, ".")
        last_key == parts[Len(parts)]
        tb == resolve_parts(t, SubSeq(parts, 1, Len(parts) - 1))
    IN  IF tb.k = "null"
        THEN IF ~with_p THEN ReturnedBool(FALSE) ELSE Raised
        ELSE IF ~with_p THEN ReturnedBool(last_key \in DOMAIN tb.m)
        ELSE IF last_key \in DOMAIN tb.m THEN Returned(tb.m[last_key])
        ELSE Raised

\* the path is looked up as one key
contains_unqualified(t, key) == ReturnedBool(contains(t, key))

\* table::contains_qualified
contains_qualified(t, key) == resolve_qualified(t, key, FALSE)

\* the path is looked up as one key
get_unqualified(t, key) == get(t, key)

\* table::get_qualified
get_qualified(t, key) == resolve_qualified(t, key, TRUE)

\* table::get_table_qualified
get_table_qualified(t, key) ==
    IF contains_qualified(t, key).ret
    THEN LET g == get_qualified(t, key)
         IN  IF g.raised THEN Raised
             ELSE IF is_table(g.node) THEN Returned(g.node) ELSE Returned(nullnode)
    ELSE Returned(nullnode)

\* base::as_array / base::as_table_array
as_kind(n, kind) == IF n.k = kind THEN n ELSE nullnode

\* table::get_array
get_array(t, key) ==
    IF ~contains(t, key) THEN Returned(nullnode)
    ELSE LET g == get(t, key)
         IN  IF g.raised THEN Raised ELSE Returned(as_kind(g.node, "array"))

\* table::get_array_qualified
get_array_qualified(t, key) ==
    IF ~contains_qualified(t, key).ret THEN Returned(nullnode)
    ELSE LET g == get_qualified(t, key)
         IN  IF g.raised THEN Raised ELSE Returned(as_kind(g.node, "array"))

\* table::get_table_array
get_table_array(t, key) ==
    IF ~contains(t, key) THEN Returned(nullnode)
    ELSE LET g == get(t, key)
         IN  IF g.raised THEN Raised ELSE Returned(as_kind(g.node, "table_array"))

\* table::get_table_array_qualified
get_table_array_qualified(t, key) ==
    IF ~contains_qualified(t, key).ret THEN Returned(nullnode)
    ELSE LET g == get_qualified(t, key)
         IN  IF g.raised THEN Raised ELSE Returned(as_kind(g.node, "table_array"))

\* std::out_of_range is not caught
get_as_uncaught(t, key, type) ==
    LET g == get(t, key)
    IN  IF g.raised THEN Raised
        ELSE IF as_value_ok(g.node, type) THEN Returned(g.node)
        ELSE Returned(nullnode)

\* table::get_as<T>: std::out_of_range is caught and becomes the empty option
get_as(t, key, type) ==
    LET g == get(t, key)
    IN  IF g.raised THEN Returned(nullnode)
        ELSE IF as_value_ok(g.node, type) THEN Returned(g.node)
        ELSE Returned(nullnode)

\* table::get_qualified_as<T>
get_qualified_as(t, key, type) ==
    LET g == get_qualified(t, key)
    IN  IF g.raised THEN Returned(nullnode)
        ELSE IF as_value_ok(g.node, type) THEN Returned(g.node)
        ELSE Returned(nullnode)

----------------------------------------------------------------------------
(* Bounds and inputs *)

MaxLines == 4         \* lines of a document of table headers and assignments
MaxLookupLines == 3   \* lines of a document the accessors are called on
MaxElems == 2         \* elements of an array literal
MaxGrammarLines == 3  \* lines of a document of malformed and well-formed lines

\* all sequences over S of length at most n
SeqsUpTo(S, n) == UNION {[1..k -> S] : k \in 0..n}

\* the lines of the documents of SpecTables
L_xx == <<"[", "[", "x", "]", "]">>                 \* [[x]]
L_x == <<"[", "x", "]">>                            \* [x]
L_xy == <<"[", "x", ".", "y", "]">>                 \* [x.y]
L_a == <<"a", " ", "=", " ", "1">>                  \* a = 1
L_qa == <<"\"", "a", "\"", " ", "=", " ", "2">>     \* "a" = 2
L_b == <<"b", "=", "t", "r", "u", "e">>             \* b=true
L_y == <<"y", " ", "=", " ", "\"", "s", "\"">>      \* y = "s"
L_c == <<" ", "#", " ", "c">>                       \*  # c

TableLines == {L_xx, L_x, L_xy, L_a, L_qa, L_b, L_y, L_c}

\* the lines of the documents of Spec
L_ta == <<"[", "a", "]">>                           \* [a]
L_tab == <<"[", "a", ".", "b", "]">>                \* [a.b]
L_c1 == <<"c", " ", "=", " ", "1">>                 \* c = 1
L_tt == <<"[", "[", "t", "]", "]">>                 \* [[t]]
L_arr == <<"a", " ", "=", " ", "[", "1", "]">>      \* a = [1]
L_blank == <<>>

LookupLines == {L_ta, L_tab, L_c1, L_tt, L_arr, L_blank}

\* the keys the accessors are called with
K_a == <<"a">>
K_c == <<"c">>
K_t == <<"t">>
K_ab == <<"a", ".", "b">>
K_ac == <<"a", ".", "c">>
K_abc == <<"a", ".", "b", ".", "c">>
K_tc == <<"t", ".", "c">>

LookupKeys == {K_a, K_c, K_t, K_ab, K_ac, K_abc, K_tc}
LookupTypes == {"int", "string"}

\* the elements of the array literals of SpecArrays: the text, the kind
\* (a scalar type, or "array") and the node the text denotes
Lit(text, kind, node) == [text |-> text, kind |-> kind, node |-> node]
IntNode(ds) == new_value("int", [neg |-> FALSE, digits |-> ds])

E_1 == Lit(<<"1">>, "int", IntNode(<<"1">>))
E_2 == Lit(<<"2">>, "int", IntNode(<<"2">>))
E_s == Lit(<<"\"", "a", "\"">>, "string", new_value("string", [chars |-> <<"a">>]))
E_f == Lit(<<"2", ".", "5">>, "float",
           new_value("float", [neg |-> FALSE, int_part |-> <<"2">>, frac_part |-> <<"5">>]))
E_true == Lit(<<"t", "r", "u", "e">>, "bool", new_value("bool", [b |-> TRUE]))
E_false == Lit(<<"f", "a", "l", "s", "e">>, "bool", new_value("bool", [b |-> FALSE]))
E_date == Lit(<<"1", "9", "7", "9", "-", "0", "5", "-", "2", "7", "T",
                "0", "7", ":", "3", "2", ":", "0", "0", "Z">>, "date",
              new_value("date", [tm_year |-> 79, tm_mon |-> 4, tm_mday |-> 27,
                                 tm_hour |-> 7, tm_min |-> 32, tm_sec |-> 0]))
E_arr1 == Lit(<<"[", "1", "]">>, "array", new_array(<<IntNode(<<"1">>)>>))
E_arrs == Lit(<<"[", "\"", "a", "\"", "]">>, "array",
              new_array(<<new_value("string", [chars |-> <<"a">>])>>))
E_empty == Lit(<<"[", "]">>, "array", new_array(<<>>))

ElemLits == {E_1, E_2, E_s, E_f, E_true, E_false, E_date, E_arr1, E_arrs, E_empty}
ScalarKinds == {"string", "int", "float", "bool", "date"}

\* what stands between two elements: a comma, a comma and a blank, a comma
\* and a line break, or only a blank
Sep_comma == <<",">>
Sep_comma_blank == <<",", " ">>
Sep_comma_newline == <<",", "\n">>
Sep_blank == <<" ">>
Separators == {Sep_comma, Sep_comma_blank, Sep_comma_newline, Sep_blank}
CommaSeparators == {Sep_comma, Sep_comma_blank, Sep_comma_newline}

\* what stands after the last element: the closing bracket, a trailing
\* comma and the bracket, or nothing (the array is not closed)
Close_bracket == <<"]">>
Close_trailing_comma == <<",", "]">>
Close_none == <<>>
Closers == {Close_bracket, Close_trailing_comma, Close_none}

\* the lines in front of the assignment and after it
Pre_none == <<>>
Pre_table == <<L_blank, <<"[", "t", "]">>>>
Pres == {Pre_none, Pre_table}
Post_none == <<>>
Post_bracket == <<<<"]">>>>
Posts == {Post_none, Post_bracket}

K_x == <<"x">>

RECURSIVE JoinElems(_, _)
JoinElems(elems, sep) ==
    IF elems = <<>> THEN <<>>
    ELSE IF Len(elems) = 1 THEN elems[1].text
    ELSE elems[1].text \o sep \o JoinElems(Tail(elems), sep)

\* the lines std::getline cuts a text into
RECURSIVE LinesOf(_)
LinesOf(text) ==
    LET q == Find(text, 1, EndOf(text), {"\n"})
    IN  IF q = EndOf(text) THEN <<text>>
        ELSE <<Str(text, 1, q)>> \o LinesOf(SubSeq(text, q + 1, Len(text)))

\* the document  pre / x = [ e1 sep e2 ... close / post
ArrayDoc(s) ==
    s.pre \o LinesOf(<<"x", " ", "=", " ", "[">> \o JoinElems(s.elems, s.sep) \o s.close)
          \o s.post

ArraySources ==
    {[pre |-> pre, elems |-> elems, sep |-> sep, close |-> close, post |-> post] :
        pre \in Pres, elems \in SeqsUpTo(ElemLits, MaxElems), sep \in Separators,
        close \in Closers, post \in Posts}

\* the lines of the documents of SpecGrammar
G_ws == <<"[", "a", " ", "b", "]">>                 \* [a b]
G_open == <<"[", "a">>                              \* [a
G_minus == <<"x", " ", "=", " ", "-">>              \* x = -
G_minus_a == <<"x", " ", "=", " ", "-", "a">>       \* x = -a
G_big == <<"x", " ", "=", " ">> \o Int64MinDigits   \* x = 9223372036854775808
G_dot == <<"x", " ", "=", " ", "1", ".">>           \* x = 1.
G_dot_blank == <<"x", " ", "=", " ", "1", ".", " ">>       \* x = 1. (and a blank)
G_dot_comment == <<"z", " ", "=", " ", "1", ".", " ", "#">>    \* z = 1. #
G_arr_dot == <<"y", " ", "=", " ", "[", "1", ".", "]">>    \* y = [1.]
G_arr_open == <<"x", " ", "=", " ", "[", "1", ",">> \* x = [1,
G_cont_2 == <<"2", "]">>                            \* 2]
G_cont_s == <<"\"", "a", "\"", "]">>                \* "a"]
G_ta == <<"[", "a", "]">>                           \* [a]
G_y == <<"y", " ", "=", " ", "1">>                  \* y = 1

GrammarLines == {G_ws, G_open, G_minus, G_minus_a, G_big, G_dot, G_dot_blank,
                 G_dot_comment, G_arr_dot, G_arr_open, G_cont_2, G_cont_s, G_ta, G_y, L_c}

----------------------------------------------------------------------------
(* The state machine *)

NoCall == [op |-> "none", key |-> <<>>, type |-> "", out |-> Outcome(FALSE, FALSE, nullnode)]

\* parser::parser and the locals of parser::parse before its loop
Start(d, s) ==
    /\ input_ = d
    /\ line_ = <<>>
    /\ line_number_ = 0
    /\ tables_ = {}
    /\ root = new_table
    /\ curr_table = <<>>
    /\ status = "parsing"
    /\ err = NoErr
    /\ call = NoCall
    /\ doc = d
    /\ src = s

\* the position parse starts a line at: std::getline, line_number_++,
\* consume_whitespace
LineStart ==
    LET l == Head(input_)
    IN  PState(l, consume_whitespace(l, 1, EndOf(l)), Tail(input_), line_number_ + 1)

\* the parser's fields after a line has been dealt with
Finish(P) ==
    /\ input_' = P.input
    /\ line_' = P.line
    /\ line_number_' = P.ln
    /\ status' = IF Failed(P) THEN "failed" ELSE "parsing"
    /\ err' = P.err

\* parse: a blank line or a comment line is skipped
SkipLine ==
    /\ status = "parsing" /\ input_ # <<>>
    /\ LET P == LineStart
       IN  /\ IF P.it = EndOf(P.line) THEN TRUE ELSE P.line[P.it] = "#"
           /\ Finish(P)
    /\ UNCHANGED <<tables_, root, curr_table, call, doc, src>>

\* parse: a line that starts with '[' goes to parse_table, from the root
TableLine ==
    /\ status = "parsing" /\ input_ # <<>>
    /\ LET P == LineStart
       IN  /\ IF P.it = EndOf(P.line) THEN FALSE ELSE P.line[P.it] = "["
           /\ \E ub \in BOOLEAN : \E R \in {parse_table(P, root, <<>>, tables_, ub)} :
                    /\ Finish(R.P)
                    /\ root' = R.root
                    /\ curr_table' = R.curr
                    /\ tables_' = R.tables
    /\ UNCHANGED <<call, doc, src>>

\* parse: any other line goes to parse_key_value
KeyValueLine ==
    /\ status = "parsing" /\ input_ # <<>>
    /\ LET P == LineStart
       IN  /\ IF P.it = EndOf(P.line) THEN FALSE ELSE P.line[P.it] \notin {"#", "["}
           /\ \E ub \in BOOLEAN : \E R \in {parse_key_value(P, root, curr_table, ub)} :
                    /\ Finish(R.P)
                    /\ root' = R.root
    /\ UNCHANGED <<tables_, curr_table, call, doc, src>>

\* parse returns root whether or not the stream holds another line
ReturnRoot_at_any_line ==
    /\ status = "parsing"
    /\ tables_' = {}
    /\ status' = "done"
    /\ UNCHANGED <<input_, line_, line_number_, root, curr_table, err, call, doc, src>>

\* parse: std::getline fails, tables_ is cleared and root returned
ReturnRoot ==
    /\ status = "parsing" /\ input_ = <<>>
    /\ tables_' = {}
    /\ status' = "done"
    /\ UNCHANGED <<input_, line_, line_number_, root, curr_table, err, call, doc, src>>

\* a call of an accessor on the table parse returned
Called(op, key, type, out) ==
    /\ status = "done"
    /\ call' = [op |-> op, key |-> key, type |-> type, out |-> out]
    /\ UNCHANGED <<input_, line_, line_number_, tables_, root, curr_table, status,
                   err, doc, src>>

Contains == \E key \in LookupKeys :
    Called("contains", key, "", ReturnedBool(contains(root, key)))
ContainsQualified == \E key \in LookupKeys :
    Called("contains_qualified", key, "", contains_qualified(root, key))
Get == \E key \in LookupKeys :
    Called("get", key, "", get(root, key))
GetQualified == \E key \in LookupKeys :
    Called("get_qualified", key, "", get_qualified(root, key))
GetTable == \E key \in LookupKeys :
    Called("get_table", key, "", get_table(root, key))
GetTableQualified == \E key \in LookupKeys :
    Called("get_table_qualified", key, "", get_table_qualified(root, key))
GetArray == \E key \in LookupKeys :
    Called("get_array", key, "", get_array(root, key))
GetArrayQualified == \E key \in LookupKeys :
    Called("get_array_qualified", key, "", get_array_qualified(root, key))
GetTableArray == \E key \in LookupKeys :
    Called("get_table_array", key, "", get_table_array(root, key))
GetTableArrayQualified == \E key \in LookupKeys :
    Called("get_table_array_qualified", key, "", get_table_array_qualified(root, key))
GetAs == \E key \in LookupKeys, type \in LookupTypes :
    Called("get_as", key, type, get_as(root, key, type))
GetQualifiedAs == \E key \in LookupKeys, type \in LookupTypes :
    Called("get_qualified_as", key, type, get_qualified_as(root, key, type))

Init == \E d \in SeqsUpTo(LookupLines, MaxLookupLines) : Start(d, <<>>)

Next ==
    \/ SkipLine \/ TableLine \/ KeyValueLine \/ ReturnRoot
    \/ Contains \/ ContainsQualified \/ Get \/ GetQualified
    \/ GetTable \/ GetTableQualified \/ GetArray \/ GetArrayQualified
    \/ GetTableArray \/ GetTableArrayQualified \/ GetAs \/ GetQualifiedAs

\* parse on a document of a few lines, then the accessors on its result
Spec == Init /\ [][Next]_vars

InitTables == \E d \in SeqsUpTo(TableLines, MaxLines) : Start(d, <<>>)

NextParse == SkipLine \/ TableLine \/ KeyValueLine \/ ReturnRoot

\* parse on a document of table headers and assignments
SpecTables == InitTables /\ [][NextParse]_vars

InitArrays == \E s \in ArraySources : Start(ArrayDoc(s), s)

\* parse on a document that assigns one array literal
SpecArrays == InitArrays /\ [][NextParse]_vars

InitGrammar == \E d \in SeqsUpTo(GrammarLines, MaxGrammarLines) : Start(d, <<>>)

\* parse on a document of malformed and well-formed lines
SpecGrammar == InitGrammar /\ [][NextParse]_vars

\* weak fairness of the three line actions of parse.  One of them is
\* enabled exactly when parse is running and the stream holds a line, and
\* that condition stands here in the place of ENABLED.
LineFairness ==
    \/ []<>(~(status = "parsing" /\ input_ # <<>>))
    \/ []<><<SkipLine \/ TableLine \/ KeyValueLine>>_vars

\* parse runs to its end once called: the loop of parser::parse is not
\* suspended between two lines, nor before its return
FairSpecArrays == SpecArrays /\ WF_vars(ReturnRoot) /\ LineFairness

----------------------------------------------------------------------------
(* Reading a document as its author does, for the statements below *)

FirstChar(l) == consume_whitespace(l, 1, EndOf(l))
IsHeaderLine(l) == Deref(l, FirstChar(l)) = "["
IsArrayHeader(l) == IsHeaderLine(l) /\ Deref(l, FirstChar(l) + 1) = "["
IsSingleHeader(l) == IsHeaderLine(l) /\ ~IsArrayHeader(l)
IsAssignment(l) == FirstChar(l) # EndOf(l) /\ l[FirstChar(l)] \notin {"#", "["}

\* the dotted path between the brackets of a header line
HeaderPath(l) ==
    LET a == FirstChar(l) + (IF IsArrayHeader(l) THEN 2 ELSE 1)
    IN  Str(l, a, Find(l, a, EndOf(l), {"]"}))

\* the key of an assignment line: the text before '=', without the blanks
\* around it and without the quotes of a quoted key
AssignedKey(l) ==
    LET a == FirstChar(l)
        eq == Find(l, a, EndOf(l), {"="})
        z == Max({j \in a..(eq - 1) : l[j] \notin WS})
    IN  IF l[a] = "\"" THEN Str(l, a + 1, z) ELSE Str(l, a, z + 1)

\* the lines parse has dealt with so far
Consumed == Len(doc) - Len(input_)

\* the positions of the [[x]] headers of a document, and the n-th of them
XHeaders(d) == {i \in 1..Len(d) : IsArrayHeader(d[i]) /\ HeaderPath(d[i]) = K_x}
NthXHeader(d, n) ==
    CHOOSE i \in XHeaders(d) : Cardinality({j \in XHeaders(d) : j <= i}) = n

\* x is declared by something other than a [[x]] header: a header [x], or
\* an assignment to x in the root table
XOtherwiseDeclared(d) ==
    \E i \in 1..Len(d) :
        \/ IsSingleHeader(d[i]) /\ HeaderPath(d[i]) = K_x
        \/ /\ IsAssignment(d[i]) /\ AssignedKey(d[i]) = K_x
           /\ \A j \in 1..(i - 1) : ~IsHeaderLine(d[j])

\* the first line after line i that is a header, or the end of the document
NextHeader(d, i) ==
    Min({j \in (i + 1)..Len(d) : IsHeaderLine(d[j])} \cup {Len(d) + 1})

\* the keys assigned between header line i and the next header line
KeysAssigned(d, i) ==
    {AssignedKey(d[j]) : j \in {j \in (i + 1)..(NextHeader(d, i) - 1) : IsAssignment(d[j])}}

\* the keys k of the headers [x.k...] and [[x.k...]] between the [[x]]
\* header at line i and the next [[x]] header
SubTableKeys(d, i) ==
    LET stop == Min({j \in XHeaders(d) : j > i} \cup {Len(d) + 1})
        subs == {j \in (i + 1)..(stop - 1) :
                    /\ IsHeaderLine(d[j])
                    /\ Len(HeaderPath(d[j])) > 2
                    /\ SubSeq(HeaderPath(d[j]), 1, 2) = <<"x", ".">>}
    IN  {LET rest == SubSeq(HeaderPath(d[j]), 3, Len(HeaderPath(d[j])))
         IN  Str(rest, 1, Find(rest, 1, EndOf(rest), {"."})) : j \in subs}

XArrayCase == status = "done" /\ XHeaders(doc) # {} /\ ~XOtherwiseDeclared(doc)

XIsArrayOfAll ==
    /\ K_x \in DOMAIN root.m
    /\ is_table_array(root.m[K_x])
    /\ Len(root.m[K_x].e) = Cardinality(XHeaders(doc))

----------------------------------------------------------------------------
(* Statements *)

\* C1 as stated: when parse returns for a document with n >= 1 headers
\* [[x]] and no other declaration of x, root holds under x a table_array
\* of n tables, and the i-th holds exactly the keys assigned between the
\* i-th [[x]] header and the next header line.
C1_ExactlyAssignedKeys ==
    XArrayCase =>
        /\ XIsArrayOfAll
        /\ \A n \in 1..Cardinality(XHeaders(doc)) :
              DOMAIN root.m[K_x].e[n].m = KeysAssigned(doc, NthXHeader(doc, n))

\* C1 amended: when parse returns for a document with n >= 1 headers [[x]]
\* and no other declaration of x, root holds under x a table_array of n
\* tables in declaration order, and the i-th holds exactly the keys assigned
\* between the i-th [[x]] header and the next header line together with the
\* keys k of the sub-table headers [x.k...] that follow the i-th [[x]]
\* header before the next one.
C1_TableArrayAccumulation ==
    XArrayCase =>
        /\ XIsArrayOfAll
        /\ \A n \in 1..Cardinality(XHeaders(doc)) :
              DOMAIN root.m[K_x].e[n].m =
                  KeysAssigned(doc, NthXHeader(doc, n))
                      \cup SubTableKeys(doc, NthXHeader(doc, n))

\* two [[x]] headers, each followed by assignments, gave two tables with
\* different keys
C1_Witness ==
    /\ XArrayCase
    /\ Cardinality(XHeaders(doc)) = 2
    /\ Len(root.m[K_x].e) = 2
    /\ DOMAIN root.m[K_x].e[1].m # {}
    /\ DOMAIN root.m[K_x].e[2].m # {}
    /\ DOMAIN root.m[K_x].e[1].m # DOMAIN root.m[K_x].e[2].m

\* the paths of the single-table headers and of the table-array headers
\* among the lines parse has dealt with
SingleHeadersSeen ==
    {HeaderPath(doc[i]) : i \in {i \in 1..Consumed : IsSingleHeader(doc[i])}}
ArrayHeadersSeen ==
    {HeaderPath(doc[i]) : i \in {i \in 1..Consumed : IsArrayHeader(doc[i])}}

\* C2: a single-table header [p] whose path an earlier single-table header
\* of the document had makes parse throw "Duplicate table"; a table-array
\* header [[p]] never does, and a repeated [[p]] is accepted.
C2_DuplicateTable ==
    [][(status = "parsing" /\ input_ # <<>>) =>
          LET l == Head(input_)
          IN  /\ (IsSingleHeader(l) /\ HeaderPath(l) \in SingleHeadersSeen) =>
                    /\ status' = "failed"
                    /\ err'.exc = "parse_exception"
                    /\ err'.msg = "Duplicate table"
              /\ IsArrayHeader(l) => err'.msg # "Duplicate table"
              /\ (IsArrayHeader(l) /\ HeaderPath(l) \in ArrayHeadersSeen) =>
                    status' = "parsing"]_vars

\* parse threw "Duplicate table" at a single-table header whose path an
\* earlier single-table header had
C2_Witness ==
    /\ status = "failed"
    /\ err.msg = "Duplicate table"
    /\ IsSingleHeader(doc[Consumed])
    /\ \E i \in 1..(Consumed - 1) :
          IsSingleHeader(doc[i]) /\ HeaderPath(doc[i]) = HeaderPath(doc[Consumed])

\* C3: an assignment whose key (bare or quoted) the current table already
\* holds makes parse throw a parse_exception; an accepted assignment adds
\* its key to the current table and every key the table held stays, bound
\* to the node it was bound to, so that contains is true for each.
C3_DuplicateKey ==
    [][(status = "parsing" /\ input_ # <<>> /\ IsAssignment(Head(input_))) =>
          LET key == AssignedKey(Head(input_))
              t == TableAt(root, curr_table)
          IN  /\ key \in DOMAIN t.m =>
                    status' = "failed" /\ err'.exc = "parse_exception"
              /\ status' = "parsing" =>
                    /\ contains(TableAt(root', curr_table'), key)
                    /\ \A k \in DOMAIN t.m :
                          /\ contains(TableAt(root', curr_table'), k)
                          /\ TableAt(root', curr_table').m[k] = t.m[k]]_vars

\* a table that held two different keys refused a third assignment to one
\* of them
C3_Witness ==
    /\ status = "failed"
    /\ err.msg = "Key already present"
    /\ Cardinality(DOMAIN TableAt(root, curr_table).m) >= 2
    /\ AssignedKey(doc[Consumed]) \in DOMAIN TableAt(root, curr_table).m

\* every array under the node is empty, or holds values of one type only,
\* or holds arrays only
RECURSIVE ArraysHomogeneous(_)
ArraysHomogeneous(n) ==
    CASE n.k = "array" ->
            /\ \A i \in 1..Len(n.e) : ArraysHomogeneous(n.e[i])
            /\ \/ n.e = <<>>
               \/ \A i \in 1..Len(n.e) : is_value(n.e[i]) /\ n.e[i].t = n.e[1].t
               \/ \A i \in 1..Len(n.e) : is_array(n.e[i])
      [] n.k = "table" -> \A key \in DOMAIN n.m : ArraysHomogeneous(n.m[key])
      [] n.k = "table_array" -> \A i \in 1..Len(n.e) : ArraysHomogeneous(n.e[i])
      [] OTHER -> TRUE

\* C4: every array of the tree parse returns, at every depth, is empty, or
\* holds values of one scalar type only, or holds arrays only.
C4_Homogeneity == status = "done" => ArraysHomogeneous(root)

\* parse returned an array of two arrays whose elements differ in type
C4_Witness ==
    /\ status = "done"
    /\ \E key \in DOMAIN TableAt(root, curr_table).m :
          LET a == TableAt(root, curr_table).m[key]
          IN  /\ is_array(a) /\ Len(a.e) = 2
              /\ is_array(a.e[1]) /\ is_array(a.e[2])
              /\ a.e[1].e # <<>> /\ a.e[2].e # <<>>
              /\ a.e[1].e[1].t # a.e[2].e[1].t

\* the array literal of the document has at least two elements, separated
\* by commas and closed by a bracket, and one of them differs in kind from
\* the first
KindMismatch(s) ==
    /\ Len(s.elems) >= 2
    /\ s.sep \in CommaSeparators
    /\ s.close \in {Close_bracket, Close_trailing_comma}
    /\ \E j \in 2..Len(s.elems) : s.elems[j].kind # s.elems[1].kind

\* C5: an array literal in which an element after the first differs in kind
\* from the first (another scalar type, an array after a scalar, a scalar
\* after an array) makes parse throw a parse_exception.
C5_MismatchRaises ==
    (KindMismatch(src) /\ status # "parsing") =>
        status = "failed" /\ err.exc = "parse_exception"

\* the elements of the array literal are scalars of one type, separated by
\* commas, the literal is closed and nothing follows it
SameScalarKind(s) ==
    /\ s.elems # <<>>
    /\ s.elems[1].kind \in ScalarKinds
    /\ \A j \in 1..Len(s.elems) : s.elems[j].kind = s.elems[1].kind
    /\ s.sep \in CommaSeparators
    /\ s.close = Close_bracket
    /\ s.post = Post_none

\* C6: for each of the five scalar types, an array literal of well-formed
\* literals of that one type, separated by commas, is parsed into an array
\* that holds the values in source order.
C6_ScalarArrayParses ==
    (SameScalarKind(src) /\ status # "parsing") =>
        /\ status = "done"
        /\ K_x \in DOMAIN TableAt(root, curr_table).m
        /\ TableAt(root, curr_table).m[K_x] =
               new_array([j \in 1..Len(src.elems) |-> src.elems[j].node])

\* the array literal has no closing bracket and the stream ends after it
Unclosed(s) == s.close = Close_none /\ s.post = Post_none

\* C7: an array literal that is not closed before the end of the stream
\* makes parse throw a parse_exception that carries the number of the last
\* line read, whether or not its elements are separated by commas.
C7_UnclosedArrayRaises ==
    (Unclosed(src) /\ status # "parsing") =>
        /\ status = "failed"
        /\ err.exc = "parse_exception"
        /\ err.line = line_number_

\* the dotted path resolves in t: every segment but the last names a table
\* and the last names a key of the table reached
RECURSIVE FullyResolves(_, _)
FullyResolves(t, segs) ==
    IF Len(segs) = 1 THEN segs[1] \in DOMAIN t.m
    ELSE /\ segs[1] \in DOMAIN t.m
         /\ t.m[segs[1]].k = "table"
         /\ FullyResolves(t.m[segs[1]], Tail(segs))

\* t.get_table(s1).get_table(s2)...get(sn), for a path that resolves
RECURSIVE ChainOfGets(_, _)
ChainOfGets(t, segs) ==
    IF Len(segs) = 1 THEN get(t, segs[1])
    ELSE ChainOfGets(get_table(t, segs[1]).node, Tail(segs))

Segments(key) == split(key, ".")

\* C8: get_qualified(s1.s2...sn) returns the node that
\* get_table(s1).get_table(s2)...get(sn) returns when every segment but the
\* last names a table and the last is a key of the table reached, and
\* raises std::out_of_range otherwise.
C8_QualifiedIsChain ==
    call.op = "get_qualified" =>
        IF FullyResolves(root, Segments(call.key))
        THEN call.out = ChainOfGets(root, Segments(call.key)) /\ ~call.out.raised
        ELSE call.out.raised

\* get_qualified returned the node at a path of two segments
C8_Witness ==
    /\ call.op = "get_qualified"
    /\ Len(Segments(call.key)) >= 2
    /\ FullyResolves(root, Segments(call.key))
    /\ ~call.out.raised
    /\ call.out.node.k # "null"

\* C9: contains_qualified never raises, and returns true exactly when
\* get_qualified of the same path on the same tree returns a node.
C9_ContainsIffGet ==
    call.op = "contains_qualified" =>
        /\ ~call.out.raised
        /\ call.out.ret <=> ~get_qualified(root, call.key).raised

\* contains_qualified returned true for a path of two segments
C9_Witness ==
    /\ call.op = "contains_qualified"
    /\ Len(Segments(call.key)) >= 2
    /\ call.out.ret
    /\ ~call.out.raised

\* the node the key of the call names in the returned tree, nullnode when
\* there is none: the key itself for the plain accessors, the dotted path
\* for the qualified ones
RECURSIVE NodeAt(_, _)
NodeAt(t, segs) ==
    IF Len(segs) = 1 THEN t.m[segs[1]] ELSE NodeAt(t.m[segs[1]], Tail(segs))

QualifiedOps == {"contains_qualified", "get_qualified", "get_table_qualified",
                 "get_array_qualified", "get_table_array_qualified",
                 "get_qualified_as"}
TypedOps == {"get_table", "get_table_qualified", "get_array", "get_array_qualified",
             "get_table_array", "get_table_array_qualified", "get_as",
             "get_qualified_as"}

Target(c) ==
    IF c.op \in QualifiedOps
    THEN IF FullyResolves(root, Segments(c.key)) THEN NodeAt(root, Segments(c.key))
         ELSE nullnode
    ELSE IF c.key \in DOMAIN root.m THEN root.m[c.key] ELSE nullnode

\* the node is of the kind the accessor of the call asks for
KindMatches(c, n) ==
    CASE c.op \in {"get_table", "get_table_qualified"} -> n.k = "table"
      [] c.op \in {"get_array", "get_array_qualified"} -> n.k = "array"
      [] c.op \in {"get_table_array", "get_table_array_qualified"} -> n.k = "table_array"
      [] c.op \in {"get_as", "get_qualified_as"} -> n.k = "value" /\ n.t = c.type
      [] OTHER -> FALSE

C_plain == <<" ", "#", "c">>
C_open == <<" ", "#", "[">>
C_close == <<" ", "#", "]">>
C_eq == <<" ", "#", "=">>
C_quote == <<" ", "#", "\"">>
CommentTexts == {C_plain, C_open, C_close, C_eq, C_quote}

\* the position parse starts the line l at, in the place of the next line
\* of the stream
LineStartOf(l) ==
    PState(l, consume_whitespace(l, 1, EndOf(l)), Tail(input_), line_number_ + 1)

\* the line has its closing bracket when it is a header
Terminated(l) == IsHeaderLine(l) => \E i \in 1..Len(l) : l[i] = "]"

\* C11: every exception parse throws for a grammar violation is a
\* parse_exception that carries the number of the last line read from the
\* stream (counted from 1, continuation lines of arrays included); none is
\* thrown without a line number.
C11_ErrorsCarryLine ==
    (status = "failed" /\ err.exc = "parse_exception") =>
        /\ err.line >= 1
        /\ err.line = Consumed
        /\ err.line = line_number_

\* the lines that assign a malformed numeral or one outside int64_t
MalformedNumerals == {G_minus, G_minus_a, G_big}

\* C12: a line that assigns a malformed or unrepresentable numeral (a lone
\* '-', '-' and a non-digit, an integer outside the signed 64-bit range)
\* makes parse throw a parse_exception, never an exception of another kind.
C12_NumeralErrorIsParseError ==
    [][(status = "parsing" /\ input_ # <<>> /\ Head(input_) \in MalformedNumerals) =>
          /\ status' = "failed"
          /\ err'.exc = "parse_exception"]_vars

\* the lines that assign digits and a '.' with no digit after it: at the
\* end of the line, before a blank, before a comment, inside an array
NoTrailingDigit == {G_dot, G_dot_blank, G_dot_comment, G_arr_dot}

\* C13: a line that assigns digits followed by '.' with no digit after the
\* '.' makes parse throw a parse_exception, whatever follows the '.'.
C13_FloatNeedsTrailingDigits ==
    [][(status = "parsing" /\ input_ # <<>> /\ Head(input_) \in NoTrailingDigit) =>
          /\ status' = "failed"
          /\ err'.exc = "parse_exception"]_vars

\* C14: when parse accepts a line (an assignment, a single-table header or
\* a table-array header), it also accepts the line with a blank and a
\* comment appended, whatever the comment holds, and builds the same tree
\* with the same current table.
C14_CommentPreserves ==
    [][(status = "parsing" /\ input_ # <<>> /\ status' = "parsing"
          /\ Terminated(Head(input_))) =>
          \A c \in CommentTexts : \A ub \in BOOLEAN :
              LET R == parse_line(LineStartOf(Head(input_) \o c), root, curr_table,
                                  tables_, ub)
              IN  /\ ~Failed(R.P)
                  /\ R.root = root'
                  /\ R.curr = curr_table']_vars

\* the line is a single-table header with a name and no closing bracket
Unterminated(l) ==
    /\ IsSingleHeader(l)
    /\ FirstChar(l) + 1 < EndOf(l)
    /\ \A i \in 1..Len(l) : l[i] # "]"

\* C16: a single-table header with a name and no closing bracket makes
\* parse throw a parse_exception.
C16_UnterminatedHeaderRaises ==
    [][(status = "parsing" /\ input_ # <<>> /\ Unterminated(Head(input_))) =>
          /\ status' = "failed"
          /\ err'.exc = "parse_exception"]_vars

\* the walk of the segments of a header path from the table at `curr`:
\* an existing table is entered, an existing table_array is entered at its
\* last element, an existing value or array raises, a missing segment is
\* created as an empty table
RECURSIVE WalkSegments(_, _, _)
WalkSegments(rt, curr, segs) ==
    IF segs = <<>> THEN [root |-> rt, curr |-> curr, raised |-> FALSE]
    ELSE LET t == TableAt(rt, curr)
             k == Head(segs)
         IN  IF k \notin DOMAIN t.m
             THEN WalkSegments(InsertAt(rt, curr, k, new_table),
                               Append(curr, [key |-> k, idx |-> 0]), Tail(segs))
             ELSE IF t.m[k].k = "table"
             THEN WalkSegments(rt, Append(curr, [key |-> k, idx |-> 0]), Tail(segs))
             ELSE IF t.m[k].k = "table_array"
             THEN WalkSegments(rt, Append(curr, [key |-> k, idx |-> Len(t.m[k].e)]),
                               Tail(segs))
             ELSE [root |-> rt, curr |-> curr, raised |-> TRUE]

\* the last segment of a table-array header, in the table the walk of the
\* segments before it ended in: an existing table_array gets a new empty
\* table, a missing key a table_array of one empty table, anything else
\* raises; the new table becomes the current one
LastArraySegment(W, k) ==
    LET t == TableAt(W.root, W.curr)
    IN  IF W.raised THEN W
        ELSE IF k \notin DOMAIN t.m
        THEN [root |-> InsertAt(W.root, W.curr, k,
                                [k |-> "table_array", e |-> <<new_table>>]),
              curr |-> Append(W.curr, [key |-> k, idx |-> 1]), raised |-> FALSE]
        ELSE IF t.m[k].k = "table_array"
        THEN [root |-> PushBackAt(W.root, W.curr, k, new_table),
              curr |-> Append(W.curr, [key |-> k, idx |-> Len(t.m[k].e) + 1]),
              raised |-> FALSE]
        ELSE [root |-> W.root, curr |-> W.curr, raised |-> TRUE]

\* the next line is a header that is closed and is not a single-table
\* header seen before
FreshHeader(l) ==
    /\ IsHeaderLine(l)
    /\ Terminated(l)
    /\ ~(IsSingleHeader(l) /\ HeaderPath(l) \in SingleHeadersSeen)

\* what a step of parse did is what the walk W says
StepFollows(W) ==
    IF W.raised THEN status' = "failed" /\ err'.exc = "parse_exception"
    ELSE status' = "parsing" /\ root' = W.root /\ curr_table' = W.curr

\* an accepted assignment puts its key into the current table and nowhere
\* else, and the current table is the root while no header has been seen
AssignmentGoesToCursor ==
    /\ (status = "parsing" /\ \A i \in 1..Consumed : ~IsHeaderLine(doc[i])) =>
            curr_table = <<>>
    /\ (status = "parsing" /\ input_ # <<>> /\ IsAssignment(Head(input_))
            /\ status' = "parsing") =>
          /\ curr_table' = curr_table
          /\ AssignedKey(Head(input_)) \in DOMAIN TableAt(root', curr_table).m
          /\ root' = InsertAt(root, curr_table, AssignedKey(Head(input_)),
                              TableAt(root', curr_table).m[AssignedKey(Head(input_))])

\* C15 as stated: every header line, single-table or table-array, walks all
\* its segments from the root (a table is entered, a table_array is entered
\* at its last element, a value or array raises, a missing segment becomes
\* an empty table), and assignments go to the table the walk ended in.
C15_EveryHeaderWalksAllSegments ==
    [][/\ (status = "parsing" /\ input_ # <<>> /\ FreshHeader(Head(input_))) =>
              StepFollows(WalkSegments(root, <<>>, Segments(HeaderPath(Head(input_)))))
       /\ AssignmentGoesToCursor]_vars

\* C15 amended: a single-table header walks all its segments from the root
\* in that way; a table-array header walks its segments but the last so,
\* and its last segment appends an empty table to an existing table_array,
\* or creates the table_array with one empty table, or raises when the key
\* names anything else; assignments go to the table the header ended in.
C15_HeaderPathWalk ==
    [][/\ (status = "parsing" /\ input_ # <<>> /\ FreshHeader(Head(input_))) =>
              LET segs == Segments(HeaderPath(Head(input_)))
                  n == Len(segs)
              IN  IF IsSingleHeader(Head(input_))
                  THEN StepFollows(WalkSegments(root, <<>>, segs))
                  ELSE StepFollows(LastArraySegment(
                           WalkSegments(root, <<>>, SubSeq(segs, 1, n - 1)), segs[n]))
       /\ AssignmentGoesToCursor]_vars

\* a header [x.y] has walked into the second table of the table_array x
\* and created y there, and an assignment has put a key into y
C15_Witness ==
    /\ status = "parsing"
    /\ Len(curr_table) = 2
    /\ curr_table[1] = [key |-> K_x, idx |-> 2]
    /\ curr_table[2].idx = 0
    /\ DOMAIN TableAt(root, curr_table).m # {}

\* the node `new` is the node `old` grown: a value or an array is as it
\* was; a table holds every key it held, bound to the node it was bound to,
\* grown; a table_array holds the tables it held at the places they were,
\* grown, and after them empty tables only
RECURSIVE Extends(_, _)
Extends(old, new) ==
    CASE old.k = "table" ->
            /\ new.k = "table"
            /\ DOMAIN old.m \subseteq DOMAIN new.m
            /\ \A key \in DOMAIN old.m : Extends(old.m[key], new.m[key])
      [] old.k = "table_array" ->
            /\ new.k = "table_array"
            /\ Len(new.e) >= Len(old.e)
            /\ \A i \in 1..Len(old.e) : Extends(old.e[i], new.e[i])
            /\ \A i \in (Len(old.e) + 1)..Len(new.e) : new.e[i] = new_table
      [] OTHER -> new = old

\* C17: at every step of parse a key bound in a table stays bound to the
\* same node; a node in the tree changes only by a new empty table appended
\* to a table_array or a key that was absent inserted into a table, and the
\* tables of a table_array keep their places.
C17_MonotonicConstruction == [][Extends(root, root')]_vars

\* after four lines the table_array x holds two tables, each with a key:
\* the second table was appended and filled while the first stayed
C17_Witness ==
    /\ status = "parsing"
    /\ Consumed = 4
    /\ K_x \in DOMAIN root.m
    /\ is_table_array(root.m[K_x])
    /\ Len(root.m[K_x].e) = 2
    /\ DOMAIN root.m[K_x].e[1].m # {}
    /\ DOMAIN root.m[K_x].e[2].m # {}

\* C18: parse terminates on every finite stream: each turn of its loop
\* takes at least one line from the stream (the continuation lines of an
\* array with it), so parse eventually throws or returns root, and it
\* returns only when the stream has been read to its end.
C18_ParseTerminates ==
    /\ [][status = "parsing" => (status' # "parsing" \/ Len(input_') < Len(input_))]_vars
    /\ [](status = "done" => input_ = <<>>)
    /\ <>(status # "parsing")

\* parse returned after an array of two elements whose second element
\* stands on a continuation line
C18_Witness ==
    /\ status = "done"
    /\ src.sep = Sep_comma_newline
    /\ Len(src.elems) = 2
    /\ Len(doc) >= 2
    /\ K_x \in DOMAIN TableAt(root, curr_table).m
    /\ Len(TableAt(root, curr_table).m[K_x].e) = 2

\* every table_array under the node holds at least one element, and its
\* elements are tables
RECURSIVE TableArraysHoldTables(_)
TableArraysHoldTables(n) ==
    CASE n.k = "table" -> \A key \in DOMAIN n.m : TableArraysHoldTables(n.m[key])
      [] n.k = "table_array" ->
            /\ Len(n.e) >= 1
            /\ \A i \in 1..Len(n.e) : is_table(n.e[i]) /\ TableArraysHoldTables(n.e[i])
      [] OTHER -> TRUE

\* C19: during a parse and after it, every table_array in the tree holds at
\* least one table, so that the last element a header walk descends into
\* exists.
C19_TableArraysNonEmpty == TableArraysHoldTables(root)

\* parse returned a tree in which x is a table_array of two tables and a
\* header has descended into the second one and created a table there
C19_Witness ==
    /\ status = "done"
    /\ K_x \in DOMAIN root.m
    /\ is_table_array(root.m[K_x])
    /\ Len(root.m[K_x].e) = 2
    /\ \E key \in DOMAIN root.m[K_x].e[2].m : is_table(root.m[K_x].e[2].m[key])

\* C20: a single-table header makes parse throw "Duplicate table" exactly
\* when an earlier single-table header of the document had the same path
\* text, whatever tables exist in the tree: also when the path would now
\* lead to a table that does not exist yet, and not when an earlier header
\* with a longer path created the table the header names.
C20_DuplicateByPathText ==
    [][(status = "parsing" /\ input_ # <<>> /\ IsSingleHeader(Head(input_))) =>
          ((status' = "failed" /\ err'.msg = "Duplicate table")
              <=> HeaderPath(Head(input_)) \in SingleHeadersSeen)]_vars

\* parse threw "Duplicate table" at a header [x.y] although the last table
\* of the table_array x, where the path leads, holds no y
C20_Witness ==
    /\ status = "failed"
    /\ err.msg = "Duplicate table"
    /\ doc[Consumed] = L_xy
    /\ K_x \in DOMAIN root.m
    /\ is_table_array(root.m[K_x])
    /\ <<"y">> \notin DOMAIN root.m[K_x].e[Len(root.m[K_x].e)].m

====
